---- MODULE Spec2Model ----
(***************************************************************************)
(* A model of git-from-scratch: the content-addressable object store       *)
(* (stage1_object_store.py), the tree codec (stage2_blobs_and_trees.py),   *)
(* the commit codec and history walk (stage3_commits_and_history.py) and   *)
(* the ref resolver (stage4_refs_and_branches.py).                         *)
(*                                                                         *)
(* Text and bytes are sequences of code points (naturals), so that the     *)
(* framing, splitting, stripping and hex conversions of the code are       *)
(* computed as the code computes them.                                     *)
(***************************************************************************)
EXTENDS Integers, Sequences, FiniteSets, TLC

VARIABLES
    objects,    \* objects/<2-hex>/<38-hex> files: hex address -> file content
    sha,        \* the frames hashlib.sha1 has digested so far, in first-seen order
    issued,     \* history: <<kind, content>> -> address returned by its first put
    work,       \* the working directory handed to build: path -> node
    restored,   \* the target directory of expand: path -> node
    refs,       \* files under the git directory holding refs: name -> text
    ret,        \* the outcome of the last operation
    lastOp      \* the last operation and its arguments

vars == <<objects, sha, issued, work, restored, refs, ret, lastOp>>

(***************************************************************************)
(* Code points.                                                            *)
(***************************************************************************)
NUL == 0
LF == 10
SP == 32
DOT == 46
SLASH == 47

BLOB == <<98, 108, 111, 98>>                  \* 'blob'
TREE == <<116, 114, 101, 101>>                \* 'tree'
COMMIT == <<99, 111, 109, 109, 105, 116>>     \* 'commit'

HexDigits == <<48, 49, 50, 51, 52, 53, 54, 55, 56, 57, 97, 98, 99, 100, 101, 102>>

(***************************************************************************)
(* Sequence helpers: the str / bytes methods the code calls.               *)
(***************************************************************************)
MinOf(S) == CHOOSE x \in S : \A y \in S : x <= y

\* bytes.find(c, from), 1-based; 0 stands for Python's -1.
Find(s, c, from) ==
    LET I == {i \in from..Len(s) : s[i] = c}
    IN  IF I = {} THEN 0 ELSE MinOf(I)

\* str.split(c): every occurrence of c separates.
RECURSIVE Split(_, _)
Split(s, c) ==
    LET n == Find(s, c, 1)
    IN  IF n = 0 THEN <<s>>
        ELSE <<SubSeq(s, 1, n - 1)>> \o Split(SubSeq(s, n + 1, Len(s)), c)

\* str(n) for n >= 0.
RECURSIVE Str(_)
Str(n) == IF n < 10 THEN <<48 + n>> ELSE Str(n \div 10) \o <<48 + (n % 10)>>

\* int(s) for a string of decimal digits; -1 stands for ValueError.
RECURSIVE ParseInt(_)
ParseInt(s) ==
    IF s = <<>> THEN -1
    ELSE LET d == s[Len(s)]
         IN  IF d \notin 48..57 THEN -1
             ELSE IF Len(s) = 1 THEN d - 48
             ELSE LET hi == ParseInt(SubSeq(s, 1, Len(s) - 1))
                  IN  IF hi = -1 THEN -1 ELSE 10 * hi + (d - 48)

(***************************************************************************)
(* Stage 1: the object store.                                              *)
(***************************************************************************)
HASH_BYTES == 20

\* hashlib.sha1 is modelled as a collision-free oracle: the k-th distinct
\* input it is given has digest k, written as 20 big-endian bytes.
Sha1Index(table, data) ==
    LET I == {i \in 1..Len(table) : table[i] = data}
    IN  IF I = {} THEN Len(table) + 1 ELSE MinOf(I)

Sha1Table(table, data) ==
    IF \E i \in 1..Len(table) : table[i] = data THEN table ELSE Append(table, data)

DigestBytes(k) == [i \in 1..HASH_BYTES |-> IF i = HASH_BYTES THEN k % 256
                                           ELSE IF i = HASH_BYTES - 1 THEN (k \div 256) % 256
                                           ELSE 0]

\* bytes.hex(): two lower-case hex digits per byte, whatever the length.
Hex(b) == [i \in 1..(2 * Len(b)) |->
              IF i % 2 = 1 THEN HexDigits[(b[(i + 1) \div 2] \div 16) + 1]
              ELSE HexDigits[(b[i \div 2] % 16) + 1]]

\* The framed form "<kind> <len>\0" + content.
Frame(obj_type, content) == obj_type \o <<SP>> \o Str(Len(content)) \o <<NUL>> \o content

\* zlib.compress / zlib.decompress: a stream that wraps its input.
Compress(data) == [zlib |-> data]
Decompress(file) == file.zlib

hash_content(table, obj_type, content) ==
    Hex(DigestBytes(Sha1Index(table, Frame(obj_type, content))))

\* store_object with the existence test dropped: the file is written on every call.
store_object_always(objs, table, obj_type, content) ==
    LET sha1_hash == hash_content(table, obj_type, content)
    IN  [hash |-> sha1_hash,
         objects |-> [a \in DOMAIN objs \cup {sha1_hash} |->
                         IF a = sha1_hash THEN Compress(Frame(obj_type, content))
                         ELSE objs[a]],
         sha |-> Sha1Table(table, Frame(obj_type, content))]

\* store_object: the returned hash, the object files and the oracle afterwards.
store_object(objs, table, obj_type, content) ==
    LET sha1_hash == hash_content(table, obj_type, content)
    IN  [hash |-> sha1_hash,
         objects |-> IF sha1_hash \notin DOMAIN objs
                     THEN [a \in DOMAIN objs \cup {sha1_hash} |->
                              IF a = sha1_hash THEN Compress(Frame(obj_type, content))
                              ELSE objs[a]]
                     ELSE objs,
         sha |-> Sha1Table(table, Frame(obj_type, content))]

Failure(e) == [err |-> e, type |-> <<>>, content |-> <<>>]

\* retrieve_object with the size check dropped.
retrieve_object_unchecked(objs, sha1_hash) ==
    IF sha1_hash \notin DOMAIN objs THEN Failure("FileNotFoundError")
    ELSE LET raw_data == Decompress(objs[sha1_hash])
             n == Find(raw_data, NUL, 1)
         IN  IF n = 0 THEN Failure("ValueError: unpack")
             ELSE LET header == SubSeq(raw_data, 1, n - 1)
                      content == SubSeq(raw_data, n + 1, Len(raw_data))
                      parts == Split(header, SP)
                  IN  IF Len(parts) # 2 THEN Failure("ValueError: unpack")
                      ELSE [err |-> "none", type |-> parts[1], content |-> content]

\* retrieve_object: (type, content), or the exception raised.
retrieve_object(objs, sha1_hash) ==
    IF sha1_hash \notin DOMAIN objs THEN Failure("FileNotFoundError")
    ELSE LET raw_data == Decompress(objs[sha1_hash])
             n == Find(raw_data, NUL, 1)
         IN  IF n = 0 THEN Failure("ValueError: unpack")
             ELSE LET header == SubSeq(raw_data, 1, n - 1)
                      content == SubSeq(raw_data, n + 1, Len(raw_data))
                      parts == Split(header, SP)
                  IN  IF Len(parts) # 2 THEN Failure("ValueError: unpack")
                      ELSE IF ParseInt(parts[2]) = -1 THEN Failure("ValueError: invalid literal")
                      ELSE IF Len(content) # ParseInt(parts[2])
                           THEN Failure("ValueError: corrupted: size mismatch")
                      ELSE [err |-> "none", type |-> parts[1], content |-> content]

(***************************************************************************)
(* Stage 2: trees.                                                         *)
(***************************************************************************)
\* None, as a value no string or hash equals.
None == <<-1>>
\* Python's truth of an optional string: None and '' are false.
Truthy(x) == x # None /\ x # <<>>

\* static.GIT_DIR: '.git'.
GIT_DIR == <<46, 103, 105, 116>>

MODE_DIR == <<52, 48, 48, 48, 48>>            \* '40000'
MODE_EXEC == <<49, 48, 48, 55, 53, 53>>       \* '100755'
MODE_FILE == <<49, 48, 48, 54, 52, 52>>       \* '100644'

\* A filesystem node is absent, a file or a directory of named nodes.
Absent == [type |-> "absent"]
File(content, exec) == [type |-> "file", content |-> content, exec |-> exec]
Dir(children) == [type |-> "dir", children |-> children]

\* f with key k set to v.
With(f, k, v) == [x \in DOMAIN f \cup {k} |-> IF x = k THEN v ELSE f[x]]

\* str < str: by code point, a proper prefix first.
RECURSIVE LexLess(_, _)
LexLess(s, t) ==
    IF t = <<>> THEN FALSE
    ELSE IF s = <<>> THEN TRUE
    ELSE IF s[1] # t[1] THEN s[1] < t[1]
    ELSE LexLess(Tail(s), Tail(t))

\* sorted(directory.iterdir()): the names of a directory, in order.
RECURSIVE SortedNames(_)
SortedNames(S) ==
    IF S = {} THEN <<>>
    ELSE LET m == CHOOSE x \in S : \A y \in S \ {x} : LexLess(x, y)
         IN  <<m>> \o SortedNames(S \ {m})

\* sorted(entries, key=lambda x: x[3]): a stable sort by name.
RECURSIVE InsertByName(_, _)
InsertByName(sorted, e) ==
    IF sorted = <<>> THEN <<e>>
    ELSE IF LexLess(e[4], Head(sorted)[4]) THEN <<e>> \o sorted
    ELSE <<Head(sorted)>> \o InsertByName(Tail(sorted), e)

RECURSIVE SortByName(_)
SortByName(entries) ==
    IF entries = <<>> THEN <<>>
    ELSE InsertByName(SortByName(SubSeq(entries, 1, Len(entries) - 1)),
                      entries[Len(entries)])

\* The value of a hex digit.
HexVal(c) == IF c \in 48..57 THEN c - 48
             ELSE IF c \in 97..102 THEN c - 87
             ELSE c - 55

\* bytes.fromhex of a string of hex digits: one byte per two digits.
FromHex(h) == [i \in 1..(Len(h) \div 2) |-> 16 * HexVal(h[2 * i - 1]) + HexVal(h[2 * i])]

\* The serialization of entries in the order given: "<mode> <name>\0" + 20 bytes each.
RECURSIVE Serialize(_)
Serialize(entries) ==
    IF entries = <<>> THEN <<>>
    ELSE LET e == Head(entries)
         IN  e[1] \o <<SP>> \o e[4] \o <<NUL>> \o FromHex(e[3]) \o Serialize(Tail(entries))

\* _build_tree_content without the sort: entries are written as presented.
build_tree_content_unsorted(entries) == Serialize(entries)

\* _build_tree_content: entries are (mode, obj_type, obj_hash, name).
build_tree_content(entries) == Serialize(SortByName(entries))

\* _get_file_mode without the executable test.
file_mode_regular(item) == MODE_FILE

\* _get_file_mode of a file.
_file_mode(item) == IF item.exec THEN MODE_EXEC ELSE MODE_FILE

\* create_tree_from_directory and its loop over the directory's items. st is
\* the store, [objects, sha]; the result is [hash, st], hash None for no tree.
RECURSIVE create_tree_from_directory(_, _, _)
RECURSIVE BuildEntries(_, _, _, _)
BuildEntries(st, children, items, entries) ==
    IF items = <<>> THEN [st |-> st, entries |-> entries]
    ELSE LET name == Head(items)
             item == children[name]
         IN  IF name # <<>> /\ name[1] = DOT
             THEN BuildEntries(st, children, Tail(items), entries)
             ELSE IF item.type = "file"
             THEN LET s == store_object(st.objects, st.sha, BLOB, item.content)
                  IN  BuildEntries([objects |-> s.objects, sha |-> s.sha], children,
                                   Tail(items),
                                   Append(entries, <<_file_mode(item), BLOB, s.hash, name>>))
             ELSE LET sub == create_tree_from_directory(st, name, item)
                  IN  BuildEntries(sub.st, children, Tail(items),
                                   IF Truthy(sub.hash)
                                   THEN Append(entries, <<MODE_DIR, TREE, sub.hash, name>>)
                                   ELSE entries)

\* create_tree_from_directory without the test for an empty entry list.
create_tree_store_empty(st, dirname, directory) ==
    IF dirname = GIT_DIR THEN [hash |-> None, st |-> st]
    ELSE LET r == BuildEntries(st, directory.children,
                               SortedNames(DOMAIN directory.children), <<>>)
             s == store_object(r.st.objects, r.st.sha, TREE,
                               build_tree_content(r.entries))
         IN  [hash |-> s.hash, st |-> [objects |-> s.objects, sha |-> s.sha]]

create_tree_from_directory(st, dirname, directory) ==
    IF dirname = GIT_DIR THEN [hash |-> None, st |-> st]
    ELSE LET r == BuildEntries(st, directory.children,
                               SortedNames(DOMAIN directory.children), <<>>)
         IN  IF r.entries = <<>> THEN [hash |-> None, st |-> r.st]
             ELSE LET s == store_object(r.st.objects, r.st.sha, TREE,
                                        build_tree_content(r.entries))
                  IN  [hash |-> s.hash, st |-> [objects |-> s.objects, sha |-> s.sha]]

\* read_tree_to_directory and its parsing loop. target is the node at the
\* target path; the result is [err, node]: the exception raised ("none" for
\* none) and the node at the target path afterwards.
RECURSIVE read_tree_to_directory(_, _, _)
RECURSIVE ReadEntries(_, _, _, _)
ReadEntries(objs, content, offset, node) ==
    IF offset > Len(content) THEN [err |-> "none", node |-> node]
    ELSE LET null_pos == Find(content, NUL, offset)
         IN  IF null_pos = 0 THEN [err |-> "none", node |-> node]
             ELSE LET mode_name == SubSeq(content, offset, null_pos - 1)
                      sp == Find(mode_name, SP, 1)
                      mode == SubSeq(mode_name, 1, sp - 1)
                      name == SubSeq(mode_name, sp + 1, Len(mode_name))
                      last == IF null_pos + HASH_BYTES > Len(content)
                              THEN Len(content) ELSE null_pos + HASH_BYTES
                      obj_hash == Hex(SubSeq(content, null_pos + 1, last))
                      old == IF name \in DOMAIN node.children
                             THEN node.children[name] ELSE Absent
                  IN  IF sp = 0 THEN [err |-> "ValueError: unpack", node |-> node]
                      ELSE IF mode = MODE_DIR
                      THEN LET sub == read_tree_to_directory(objs, obj_hash, old)
                               next == IF sub.node.type = "absent" THEN node
                                       ELSE Dir(With(node.children, name, sub.node))
                           IN  IF sub.err # "none" THEN [err |-> sub.err, node |-> next]
                               ELSE ReadEntries(objs, content, null_pos + HASH_BYTES + 1, next)
                      ELSE LET b == retrieve_object(objs, obj_hash)
                           IN  IF b.err # "none" THEN [err |-> b.err, node |-> node]
                               ELSE IF old.type = "dir"
                               THEN [err |-> "IsADirectoryError", node |-> node]
                               ELSE ReadEntries(objs, content, null_pos + HASH_BYTES + 1,
                                        Dir(With(node.children, name,
                                                 File(b.content, mode = MODE_EXEC))))

read_tree_to_directory(objs, tree_hash, target) ==
    LET r == retrieve_object(objs, tree_hash)
    IN  IF r.err # "none" THEN [err |-> r.err, node |-> target]
        ELSE IF r.type # TREE THEN [err |-> "ValueError: not a tree", node |-> target]
        ELSE IF target.type = "file" THEN [err |-> "FileExistsError", node |-> target]
        ELSE ReadEntries(objs, r.content, 1,
                         IF target.type = "absent" THEN Dir(<<>>) ELSE target)

\* PyGitTree.ls_tree: [err, lines], the lines printed before the listing
\* ended or an exception was reported.
RECURSIVE LsEntries(_, _, _)
LsEntries(content, offset, lines) ==
    IF offset > Len(content) THEN [err |-> "none", lines |-> lines]
    ELSE LET null_pos == Find(content, NUL, offset)
         IN  IF null_pos = 0 THEN [err |-> "none", lines |-> lines]
             ELSE LET mode_name == SubSeq(content, offset, null_pos - 1)
                      sp == Find(mode_name, SP, 1)
                      mode == SubSeq(mode_name, 1, sp - 1)
                      name == SubSeq(mode_name, sp + 1, Len(mode_name))
                      last == IF null_pos + HASH_BYTES > Len(content)
                              THEN Len(content) ELSE null_pos + HASH_BYTES
                      obj_hash == Hex(SubSeq(content, null_pos + 1, last))
                      obj_type_display == IF mode = MODE_DIR THEN TREE ELSE BLOB
                  IN  IF sp = 0 THEN [err |-> "ValueError: unpack", lines |-> lines]
                      ELSE LsEntries(content, null_pos + HASH_BYTES + 1,
                                     Append(lines, <<mode, obj_type_display, obj_hash, name>>))

ls_tree(objs, tree_hash) ==
    LET r == retrieve_object(objs, tree_hash)
    IN  IF r.err # "none" THEN [err |-> r.err, lines |-> <<>>]
        ELSE IF r.type # TREE THEN [err |-> "Error: not a tree", lines |-> <<>>]
        ELSE LsEntries(r.content, 1, <<>>)

(***************************************************************************)
(* Stage 3: commits and history.                                           *)
(***************************************************************************)
AUTHOR_NAME == <<80, 101, 116, 101, 114, 32, 78, 111, 114, 118, 105, 103>>    \* 'Peter Norvig'
AUTHOR_EMAIL == <<110, 111, 114, 118, 105, 103, 64, 103, 111, 111, 103, 108, 101,
                  46, 99, 111, 109>>                                          \* 'norvig@google.com'
TZ_UTC == <<43, 48, 48, 48, 48>>                                              \* '+0000'
KEY_TREE == <<116, 114, 101, 101>>                                            \* 'tree'
KEY_PARENT == <<112, 97, 114, 101, 110, 116>>                                 \* 'parent'
KEY_AUTHOR == <<97, 117, 116, 104, 111, 114>>                                 \* 'author'
KEY_COMMITTER == <<99, 111, 109, 109, 105, 116, 116, 101, 114>>               \* 'committer'
KEY_MESSAGE == <<109, 101, 115, 115, 97, 103, 101>>                           \* 'message'

\* The characters str.strip() removes (those below 128).
Whitespace == {9, 10, 11, 12, 13, 28, 29, 30, 31, 32}

RECURSIVE LStrip(_)
LStrip(s) == IF s # <<>> /\ Head(s) \in Whitespace THEN LStrip(Tail(s)) ELSE s

RECURSIVE RStrip(_)
RStrip(s) == IF s # <<>> /\ s[Len(s)] \in Whitespace
             THEN RStrip(SubSeq(s, 1, Len(s) - 1)) ELSE s

\* str.strip()
Strip(s) == LStrip(RStrip(s))

\* str.split(c, 1): at most one split, at the first c.
SplitFirst(s, c) ==
    LET n == Find(s, c, 1)
    IN  IF n = 0 THEN <<s>> ELSE <<SubSeq(s, 1, n - 1), SubSeq(s, n + 1, Len(s))>>

\* str.split('\n\n', 1): at most one split, at the first blank line.
SplitBlankLine(s) ==
    LET I == {i \in 1..(Len(s) - 1) : s[i] = LF /\ s[i + 1] = LF}
    IN  IF I = {} THEN <<s>>
        ELSE <<SubSeq(s, 1, MinOf(I) - 1), SubSeq(s, MinOf(I) + 2, Len(s))>>

\* '\n'.join(lines)
RECURSIVE JoinLines(_)
JoinLines(lines) ==
    IF Len(lines) = 1 THEN lines[1]
    ELSE lines[1] \o <<LF>> \o JoinLines(Tail(lines))

\* The content create_commit composes; timestamp is str(int(now.timestamp())).
commit_content(tree_hash, parent_hash, message, timestamp) ==
    LET who == AUTHOR_NAME \o <<SP, 60>> \o AUTHOR_EMAIL \o <<62, SP>>
                   \o timestamp \o <<SP>> \o TZ_UTC
    IN  JoinLines(<<KEY_TREE \o <<SP>> \o tree_hash>>
                  \o (IF Truthy(parent_hash)
                      THEN <<KEY_PARENT \o <<SP>> \o parent_hash>> ELSE <<>>)
                  \o <<KEY_AUTHOR \o <<SP>> \o who, KEY_COMMITTER \o <<SP>> \o who,
                       <<>>, message>>)

\* create_commit: the content stored as a commit object.
create_commit(objs, table, tree_hash, parent_hash, message, timestamp) ==
    store_object(objs, table, COMMIT, commit_content(tree_hash, parent_hash, message, timestamp))

\* The loop of parse_commit over the header lines: [err, data].
RECURSIVE ParseHeaders(_, _)
ParseHeaders(lines, commit_data) ==
    IF lines = <<>> THEN [err |-> "none", data |-> commit_data]
    ELSE LET kv == SplitFirst(Head(lines), SP)
         IN  IF Len(kv) # 2 THEN [err |-> "ValueError: unpack", data |-> commit_data]
             ELSE ParseHeaders(Tail(lines), With(commit_data, kv[1], kv[2]))

\* parse_commit: [err, data], data the dict returned.
parse_commit(objs, commit_hash) ==
    LET r == retrieve_object(objs, commit_hash)
    IN  IF r.err # "none" THEN [err |-> r.err, data |-> <<>>]
        ELSE IF r.type # COMMIT THEN [err |-> "ValueError: not a commit", data |-> <<>>]
        ELSE LET hm == SplitBlankLine(r.content)
             IN  IF Len(hm) # 2 THEN [err |-> "ValueError: unpack", data |-> <<>>]
                 ELSE ParseHeaders(Split(hm[1], LF), KEY_MESSAGE :> Strip(hm[2]))

RECURSIVE log_walk(_, _, _)

\* dict.get(key): None when the key is missing.
DictGet(data, key) == IF key \in DOMAIN data THEN data[key] ELSE None

\* PyGitCommit.log without the step to the parent: one commit is printed.
log_walk_once(objs, current_hash, visited) ==
    IF ~Truthy(current_hash) THEN [visited |-> visited, err |-> "none"]
    ELSE LET c == parse_commit(objs, current_hash)
         IN  IF c.err # "none" THEN [visited |-> visited, err |-> c.err]
             ELSE [visited |-> Append(visited, current_hash), err |-> "none"]

\* PyGitCommit.log: the commits printed, in order, and the exception that
\* ended the walk ("none" for none).
log_walk(objs, current_hash, visited) ==
    IF ~Truthy(current_hash) THEN [visited |-> visited, err |-> "none"]
    ELSE LET c == parse_commit(objs, current_hash)
         IN  IF c.err # "none" THEN [visited |-> visited, err |-> c.err]
             ELSE log_walk(objs, DictGet(c.data, KEY_PARENT), Append(visited, current_hash))

(***************************************************************************)
(* Stage 4: refs and branches.                                             *)
(***************************************************************************)
HEAD == <<72, 69, 65, 68>>                                          \* 'HEAD'
REFS_HEADS == <<114, 101, 102, 115, 47, 104, 101, 97, 100, 115>>    \* 'refs/heads'
OBJECTS == <<111, 98, 106, 101, 99, 116, 115>>                      \* 'objects'
REF_MARK == <<114, 101, 102, 58, 32>>                               \* 'ref: '
HASH_CHARS == 40

\* str.startswith
StartsWith(s, prefix) == Len(s) >= Len(prefix) /\ SubSeq(s, 1, Len(prefix)) = prefix

\* base / name, for a relative name
Join(base, name) == base \o <<SLASH>> \o name

\* Whether the path (relative to the git directory) is a directory: the git
\* directory itself, its objects directory, or a directory above a ref file.
IsDir(rf, path) ==
    \/ path = <<>>
    \/ path = OBJECTS
    \/ \E f \in DOMAIN rf : StartsWith(f, path \o <<SLASH>>)

\* Path.exists()
Exists(rf, path) == path \in DOMAIN rf \/ IsDir(rf, path)

\* Whether a directory above the path is a file, so that mkdir(parents=True) fails.
ParentIsFile(rf, path) ==
    \E i \in 1..Len(path) : path[i] = SLASH /\ SubSeq(path, 1, i - 1) \in DOMAIN rf

\* GitRefs.update_ref with the symbolic flag ignored: the target is written bare.
git_update_ref_unmarked(rf, ref_name, commit_hash, symbolic) ==
    IF ParentIsFile(rf, ref_name) THEN [err |-> "FileExistsError", refs |-> rf]
    ELSE IF IsDir(rf, ref_name) THEN [err |-> "IsADirectoryError", refs |-> rf]
    ELSE [err |-> "none", refs |-> With(rf, ref_name, Strip(commit_hash) \o <<LF>>)]

\* GitRefs.update_ref: [err, refs], the exception raised and the ref files afterwards.
git_update_ref(rf, ref_name, commit_hash, symbolic) ==
    LET content == IF symbolic THEN REF_MARK \o commit_hash ELSE commit_hash
    IN  IF ParentIsFile(rf, ref_name) THEN [err |-> "FileExistsError", refs |-> rf]
        ELSE IF IsDir(rf, ref_name) THEN [err |-> "IsADirectoryError", refs |-> rf]
        ELSE [err |-> "none", refs |-> With(rf, ref_name, Strip(content) \o <<LF>>)]

\* The target a symbolic record names: content.split(' ', 1)[1].
symbolic_target(content) == SplitFirst(content, SP)[2]

\* GitRefs.resolve_ref: [err, value]. seen holds the names on the way: a name
\* met again recurses until Python's recursion limit raises RecursionError.
RECURSIVE resolve_ref_from(_, _, _)
resolve_ref_from(rf, ref_name, seen) ==
    IF ref_name \in seen THEN [err |-> "RecursionError", value |-> None]
    ELSE IF ref_name = HEAD /\ ~Exists(rf, HEAD) THEN [err |-> "none", value |-> None]
    ELSE LET direct == ref_name
             short == Join(REFS_HEADS, ref_name)
             ref_path == IF Exists(rf, direct) THEN direct ELSE short
         IN  IF ~Exists(rf, ref_path) THEN [err |-> "none", value |-> None]
             ELSE IF ref_path \notin DOMAIN rf
             THEN [err |-> "IsADirectoryError", value |-> None]
             ELSE LET content == Strip(rf[ref_path])
                  IN  IF StartsWith(content, REF_MARK)
                      THEN resolve_ref_from(rf, symbolic_target(content),
                                            seen \cup {ref_name})
                      ELSE [err |-> "none", value |-> content]

resolve_ref(rf, ref_name) == resolve_ref_from(rf, ref_name, {})

\* The safety check of PyGitRef.update_ref.
valid_sha1(commit_hash) ==
    /\ Len(commit_hash) = HASH_CHARS
    /\ \A i \in 1..Len(commit_hash) : \E j \in 1..Len(HexDigits) : commit_hash[i] = HexDigits[j]

\* PyGitRef.update_ref: [err, refs].
cli_update_ref(rf, ref_name, commit_hash) ==
    IF ~valid_sha1(commit_hash) THEN [err |-> "Error: not a valid SHA-1 hash", refs |-> rf]
    ELSE git_update_ref(rf, ref_name, commit_hash, FALSE)

\* PyGitRef.branch with a branch name: [err, refs].
cli_branch(rf, branch_name, start_point) ==
    LET r == resolve_ref(rf, start_point)
    IN  IF r.err # "none" THEN [err |-> r.err, refs |-> rf]
        ELSE IF ~Truthy(r.value) THEN [err |-> "Error: Cannot resolve", refs |-> rf]
        ELSE git_update_ref(rf, Join(REFS_HEADS, branch_name), r.value, FALSE)

\* PyGitRef.checkout: [err, refs].
cli_checkout(rf, branch_name) ==
    LET r == resolve_ref(rf, Join(REFS_HEADS, branch_name))
    IN  IF r.err # "none" THEN [err |-> r.err, refs |-> rf]
        ELSE IF ~Truthy(r.value) THEN [err |-> "Error: branch not found", refs |-> rf]
        ELSE git_update_ref(rf, HEAD, Join(REFS_HEADS, branch_name), TRUE)

\* PyGitRef.log: [visited, err].
cli_log(rf, objs, start_point) ==
    LET r == resolve_ref(rf, start_point)
    IN  IF r.err # "none" THEN [visited |-> <<>>, err |-> r.err]
        ELSE IF ~Truthy(r.value) THEN [visited |-> <<>>, err |-> "Error: Cannot resolve"]
        ELSE log_walk(objs, r.value, <<>>)

\* GitRefs.list_branches: the names of the entries of the refs/heads directory.
list_branches(rf) ==
    LET prefix == REFS_HEADS \o <<SLASH>>
    IN  {Split(SubSeq(f, Len(prefix) + 1, Len(f)), SLASH)[1] :
             f \in {g \in DOMAIN rf : StartsWith(g, prefix)}}

\* GitRefs.get_current_branch.
get_current_branch(rf) ==
    IF ~Exists(rf, HEAD) THEN None
    ELSE LET content == Strip(rf[HEAD])
             parts == Split(content, SLASH)
         IN  IF StartsWith(content, REF_MARK \o REFS_HEADS \o <<SLASH>>)
             THEN parts[Len(parts)]
             ELSE None

\* PyGitRef.branch without a branch name: the branches printed and those marked with '*'.
cli_branch_list(rf) ==
    LET current_branch == get_current_branch(rf)
    IN  [current |-> current_branch,
         listed |-> list_branches(rf),
         marked |-> {b \in list_branches(rf) : b = current_branch}]


(***************************************************************************)
(* Bounds and input sets of the object-store specification.                *)
(***************************************************************************)
MaxObjects == 2

Kinds == {BLOB, TREE}
Contents == {<<>>, <<97>>, <<0, 97>>}
\* What a changed length field may read: '1' or 'x'.
SizeFields == {<<49>>, <<120>>}
\* An address no object is stored at.
NoSuchAddress == Hex([i \in 1..HASH_BYTES |-> 255])

NoRet == [op |-> "none"]

Empty == <<>>

Init ==
    /\ objects = Empty
    /\ sha = <<>>
    /\ issued = Empty
    /\ work = Empty
    /\ restored = Empty
    /\ refs = Empty
    /\ ret = NoRet
    /\ lastOp = [op |-> "init"]

\* put(kind, content): GitObjectStore.store_object.
Put(kind, content) ==
    LET r == store_object(objects, sha, kind, content)
        key == <<kind, content>>
    IN  /\ \/ Frame(kind, content) \in {sha[i] : i \in 1..Len(sha)}
           \/ Len(sha) < MaxObjects
        /\ objects' = r.objects
        /\ sha' = r.sha
        /\ issued' = IF key \in DOMAIN issued THEN issued
                     ELSE [k \in DOMAIN issued \cup {key} |->
                              IF k = key THEN r.hash ELSE issued[k]]
        /\ ret' = [op |-> "put", hash |-> r.hash]
        /\ lastOp' = [op |-> "put", kind |-> kind, content |-> content,
                      again |-> key \in DOMAIN issued]
        /\ UNCHANGED <<work, restored, refs>>

\* get(address): GitObjectStore.retrieve_object.
Get(address) ==
    /\ ret' = [op |-> "get", result |-> retrieve_object(objects, address)]
    /\ lastOp' = [op |-> "get", address |-> address]
    /\ UNCHANGED <<objects, sha, issued, work, restored, refs>>

\* The length field of a stored object's header is changed on disk (by
\* something other than this program): the file is a well-formed stream of
\* the frame with another length field.
Tamper(address, size_str) ==
    /\ address \in DOMAIN objects
    /\ LET raw_data == Decompress(objects[address])
           n == Find(raw_data, NUL, 1)
           sp == Find(raw_data, SP, 1)
       IN  /\ SubSeq(raw_data, sp + 1, n - 1) # size_str
           /\ objects' = [objects EXCEPT ![address] =
                  Compress(SubSeq(raw_data, 1, sp) \o size_str
                           \o SubSeq(raw_data, n, Len(raw_data)))]
    /\ ret' = NoRet
    /\ lastOp' = [op |-> "tamper", address |-> address]
    /\ UNCHANGED <<sha, issued, work, restored, refs>>

NextStore ==
    \/ \E kind \in Kinds, content \in Contents : Put(kind, content)
    \/ \E address \in DOMAIN objects \cup {NoSuchAddress} : Get(address)
    \/ \E address \in DOMAIN objects, size_str \in SizeFields : Tamper(address, size_str)

SpecStore == Init /\ [][NextStore]_vars

(***************************************************************************)
(* The tree specification: a working directory is built and expanded.      *)
(***************************************************************************)
NameA == <<97>>                \* 'a'
NameAB == <<97, 32, 98>>       \* 'a b'
NameH == <<46, 104>>           \* '.h'
NameD == <<100>>               \* 'd'
NameE == <<101>>               \* 'e'

\* The directory holding the nodes of f that are not absent.
MkDir(f) == Dir([n \in {m \in DOMAIN f : f[m].type # "absent"} |-> f[n]])

\* Subdirectories: an optional file 'a', an optional hidden file '.h' and an
\* optional empty directory 'e'.
LeafDirs ==
    {MkDir((NameA :> x) @@ (NameH :> y) @@ (NameE :> z)) :
        x \in {Absent, File(<<>>, FALSE), File(<<104, 105>>, TRUE)},
        y \in {Absent, File(<<104>>, FALSE)},
        z \in {Absent, Dir(<<>>)}}

\* Working directories: optional files 'a' and 'a b', an optional hidden file
\* '.h' and an optional subdirectory 'd'.
WorkDirs ==
    {MkDir((NameA :> x) @@ (NameAB :> w) @@ (NameH :> y) @@ (NameD :> z)) :
        x \in {Absent, File(<<104, 105>>, FALSE), File(<<0, 10>>, TRUE)},
        w \in {Absent, File(<<104, 105>>, TRUE)},
        y \in {Absent, File(<<>>, FALSE)},
        z \in {Absent} \cup LeafDirs}

\* Path('.').name is ''; a directory may also be named like the git directory.
RootNames == {<<>>, GIT_DIR}

InitTree ==
    /\ objects = Empty
    /\ sha = <<>>
    /\ issued = [build |-> None]
    /\ work \in WorkDirs
    /\ restored = Absent
    /\ refs = Empty
    /\ ret = NoRet
    /\ lastOp = [op |-> "init"]

\* build(directory): PyGitTree.write_tree on the working directory.
Build(dirname) ==
    LET r == create_tree_from_directory([objects |-> objects, sha |-> sha], dirname, work)
    IN  /\ objects' = r.st.objects
        /\ sha' = r.st.sha
        /\ issued' = [build |-> IF Truthy(r.hash) THEN r.hash ELSE issued.build]
        /\ ret' = [op |-> "build", hash |-> r.hash]
        /\ lastOp' = [op |-> "build", dirname |-> dirname]
        /\ UNCHANGED <<work, restored, refs>>

\* expand(address, target): PyGitTree.read_tree, into a fresh target
\* directory or into the directory the last expand wrote.
Expand(address, fresh) ==
    LET r == read_tree_to_directory(objects, address, IF fresh THEN Absent ELSE restored)
    IN  /\ restored' = r.node
        /\ ret' = [op |-> "expand", err |-> r.err]
        /\ lastOp' = [op |-> "expand", address |-> address, fresh |-> fresh]
        /\ UNCHANGED <<objects, sha, issued, work, refs>>

NextTree ==
    \/ \E dirname \in RootNames : Build(dirname)
    \/ \E address \in DOMAIN objects \cup {NoSuchAddress}, fresh \in BOOLEAN :
           Expand(address, fresh)

SpecTree == InitTree /\ [][NextTree]_vars

(***************************************************************************)
(* The raw-tree specification: objects of any content are put into the     *)
(* store through store_object, and trees are expanded and listed.          *)
(***************************************************************************)
\* "<mode> <name>\0" + the 20 bytes of the address.
Record(mode, name, target) == mode \o <<SP>> \o name \o <<NUL>> \o FromHex(target)

\* What follows the first record of a tree: nothing, a header with no NUL,
\* a record with 3 address bytes, a header with no space.
Tails ==
    {<<>>,
     MODE_FILE \o <<SP>> \o NameE,
     MODE_FILE \o <<SP>> \o NameE \o <<NUL, 1, 2, 3>>,
     NameE \o <<NUL>> \o FromHex(NoSuchAddress)}

RawModes == {MODE_FILE, MODE_DIR}
RawTargets == DOMAIN objects \cup {NoSuchAddress}

\* The tree contents put: a record named 'a', then a record named 'e' or a tail.
TreeContents ==
    {Record(m, NameA, t) \o tail :
        m \in RawModes, t \in RawTargets,
        tail \in Tails \cup {Record(m2, NameE, t2) : m2 \in RawModes, t2 \in RawTargets}}

InitRaw ==
    /\ objects = Empty
    /\ sha = <<>>
    /\ issued = Empty
    /\ work = Empty
    /\ restored = Absent
    /\ refs = Empty
    /\ ret = NoRet
    /\ lastOp = [op |-> "init"]

\* list-tree: PyGitTree.ls_tree.
LsTree(address) ==
    LET r == ls_tree(objects, address)
    IN  /\ ret' = [op |-> "ls_tree", err |-> r.err, lines |-> r.lines]
        /\ lastOp' = [op |-> "ls_tree", address |-> address]
        /\ UNCHANGED <<objects, sha, issued, work, restored, refs>>

NextRaw ==
    \/ Put(BLOB, <<97>>)
    \/ \E content \in TreeContents : Put(TREE, content)
    \/ \E address \in DOMAIN objects \cup {NoSuchAddress}, fresh \in BOOLEAN :
           Expand(address, fresh)
    \/ \E address \in DOMAIN objects \cup {NoSuchAddress} : LsTree(address)

SpecRaw == InitRaw /\ [][NextRaw]_vars

(***************************************************************************)
(* The entry-list specification: trees are built from lists of entries     *)
(* presented in any order.                                                 *)
(***************************************************************************)
Hash1 == Hex(DigestBytes(161))
Hash2 == Hex(DigestBytes(2))

\* (mode, obj_type, obj_hash, name) entries; two of them share the name 'a'.
EntryUniverse ==
    {<<MODE_FILE, BLOB, Hash1, NameA>>, <<MODE_EXEC, BLOB, Hash2, NameA>>,
     <<MODE_FILE, BLOB, Hash2, NameAB>>, <<MODE_DIR, TREE, Hash1, NameD>>,
     <<MODE_EXEC, BLOB, Hash1, NameE>>}

\* The entry sets of a directory: no name twice, at least one entry.
EntrySets ==
    {S \in SUBSET EntryUniverse :
        S # {} /\ \A e1, e2 \in S : e1[4] = e2[4] => e1 = e2}

\* The orders a set of entries may be presented in.
Orders(S) ==
    {q \in [1..Cardinality(S) -> S] : \A i, j \in 1..Cardinality(S) : q[i] = q[j] => i = j}

Range(q) == {q[i] : i \in 1..Len(q)}

\* The tail of create_tree_from_directory: the entry list is serialized and
\* stored as a tree. A behaviour presents the entries of one directory, in
\* one order after another.
TreeOfEntries(entries) ==
    LET content == build_tree_content(entries)
        r == store_object(objects, sha, TREE, content)
        key == Range(entries)
    IN  /\ \/ key \in DOMAIN issued
           \/ issued = Empty
        /\ objects' = r.objects
        /\ sha' = r.sha
        /\ issued' = IF key \in DOMAIN issued THEN issued
                     ELSE With(issued, key,
                               [entries |-> entries, content |-> content, hash |-> r.hash])
        /\ ret' = [op |-> "tree", content |-> content, hash |-> r.hash]
        /\ lastOp' = [op |-> "tree", entries |-> entries]
        /\ UNCHANGED <<work, restored, refs>>

NextEntries == \E S \in EntrySets : \E entries \in Orders(S) : TreeOfEntries(entries)

SpecEntries == Init /\ [][NextEntries]_vars

(***************************************************************************)
(* The commit specification: commits are created and histories walked.     *)
(***************************************************************************)
MaxCommits == 3

\* A tree address; create_commit does not look the tree up.
TreeHashes == {Hash1}
\* ' a\n\nb\n': leading space, a blank line inside, a trailing newline.
Messages == {<<SP, 97, LF, LF, 98, LF>>}
\* str(int(now.timestamp()))
Timestamps == {<<49, 55>>}

\* The parents a caller may name: none, '' , the address of a stored
\* object, or an address nothing is stored at. (An address the oracle has
\* yet to give out cannot be named: no caller knows a digest in advance.)
Parents == {None, <<>>, NoSuchAddress} \cup DOMAIN objects

\* create-commit: PyGitCommit.commit_tree.
CommitTree(tree_hash, p, m, timestamp) ==
    LET r == create_commit(objects, sha, tree_hash, p, m, timestamp)
    IN  /\ r.hash \in DOMAIN objects \/ Cardinality(DOMAIN objects) < MaxCommits
        /\ objects' = r.objects
        /\ sha' = r.sha
        /\ issued' = IF r.hash \in DOMAIN issued THEN issued
                     ELSE With(issued, r.hash,
                               [tree |-> tree_hash, parent |-> p, message |-> m])
        /\ ret' = [op |-> "commit_tree", hash |-> r.hash]
        /\ lastOp' = [op |-> "commit_tree", tree |-> tree_hash, parent |-> p, message |-> m]
        /\ UNCHANGED <<work, restored, refs>>

\* show-history from an address: PyGitCommit.log.
Log(commit_hash) ==
    LET r == log_walk(objects, commit_hash, <<>>)
    IN  /\ ret' = [op |-> "log", visited |-> r.visited, err |-> r.err]
        /\ lastOp' = [op |-> "log", commit_hash |-> commit_hash]
        /\ UNCHANGED <<objects, sha, issued, work, restored, refs>>

\* parse(address): GitCommits.parse_commit.
Parse(commit_hash) ==
    LET r == parse_commit(objects, commit_hash)
    IN  /\ ret' = [op |-> "parse", err |-> r.err, data |-> r.data]
        /\ lastOp' = [op |-> "parse", commit_hash |-> commit_hash]
        /\ UNCHANGED <<objects, sha, issued, work, restored, refs>>

NextCommit ==
    \/ \E tree_hash \in TreeHashes, p \in Parents, m \in Messages, timestamp \in Timestamps :
           CommitTree(tree_hash, p, m, timestamp)
    \/ \E commit_hash \in DOMAIN objects \cup {NoSuchAddress} : Log(commit_hash)
    \/ \E commit_hash \in DOMAIN objects \cup {NoSuchAddress} : Parse(commit_hash)

SpecCommit == Init /\ [][NextCommit]_vars

(***************************************************************************)
(* The ref specification: GitRefs.update_ref writes direct and symbolic    *)
(* records under any name, and names are resolved.                         *)
(***************************************************************************)
MAIN == <<109, 97, 105, 110>>       \* 'main'
DEV == <<100, 101, 118>>            \* 'dev'
HEADS_MAIN == Join(REFS_HEADS, MAIN)
HEADS_DEV == Join(REFS_HEADS, DEV)

\* The names refs are written under, the names symbolic refs may point at and
\* the names that are resolved: full names, short branch names, and the
\* branch directory itself.
RefNames == {HEAD, HEADS_MAIN, HEADS_DEV}
RefTargets == {HEAD, HEADS_MAIN, DEV}
ResolveNames == {HEAD, HEADS_MAIN, HEADS_DEV, MAIN, DEV, REFS_HEADS}
CommitHashes == {Hash1, Hash2}

\* update(name, target, symbolic): GitRefs.update_ref.
UpdateRef(ref_name, target, symbolic) ==
    LET r == git_update_ref(refs, ref_name, target, symbolic)
    IN  /\ refs' = r.refs
        /\ issued' = IF r.err = "none"
                     THEN With(issued, ref_name, [target |-> target, symbolic |-> symbolic])
                     ELSE issued
        /\ ret' = [op |-> "update", err |-> r.err]
        /\ lastOp' = [op |-> "update", ref_name |-> ref_name, target |-> target,
                      symbolic |-> symbolic]
        /\ UNCHANGED <<objects, sha, work, restored>>

\* resolve(name): GitRefs.resolve_ref.
Resolve(ref_name) ==
    LET r == resolve_ref(refs, ref_name)
    IN  /\ ret' = [op |-> "resolve", err |-> r.err, value |-> r.value]
        /\ lastOp' = [op |-> "resolve", ref_name |-> ref_name]
        /\ UNCHANGED <<objects, sha, issued, work, restored, refs>>

NextRefs ==
    \/ \E ref_name \in RefNames, target \in RefTargets : UpdateRef(ref_name, target, TRUE)
    \/ \E ref_name \in RefNames, target \in CommitHashes : UpdateRef(ref_name, target, FALSE)
    \/ \E ref_name \in ResolveNames : Resolve(ref_name)

SpecRefs == Init /\ [][NextRefs]_vars

(***************************************************************************)
(* The command specification: the operations of PyGitRef on a repository.  *)
(***************************************************************************)
MaxCliCommits == 1

\* Values handed to update-ref that are no address: 38 hex digits, and 40
\* characters of which one is 'g'.
Hex38 == [i \in 1..38 |-> 97]
NonHex40 == [i \in 1..HASH_CHARS |-> IF i = 7 THEN 103 ELSE 48]
HashArgs == DOMAIN objects \cup {Hash2, Hex38, NonHex40}

FEATURE_X == <<102, 47, 120>>      \* 'f/x'
BranchNames == {MAIN, DEV, FEATURE_X}
\* A text file of the working directory, named relative to the git
\* directory: '../n', holding 'hi\n'.
NOTES == <<DOT, DOT, SLASH, 110>>
NOTES_TEXT == <<104, 105, LF>>
StartPoints == {HEAD, MAIN, HEADS_DEV, NOTES}

\* The repository before initialize-repository, beside a working directory
\* that holds the text file.
InitCli ==
    /\ objects = Empty
    /\ sha = <<>>
    /\ issued = Empty
    /\ work = Empty
    /\ restored = Empty
    /\ refs = NOTES :> NOTES_TEXT
    /\ ret = NoRet
    /\ lastOp = [op |-> "init"]

\* initialize-repository: PyGitRef.init.
CliInit ==
    LET r == git_update_ref(refs, HEAD, HEADS_MAIN, TRUE)
    IN  /\ refs' = r.refs
        /\ ret' = [op |-> "init", err |-> r.err]
        /\ lastOp' = [op |-> "init"]
        /\ UNCHANGED <<objects, sha, issued, work, restored>>

\* create-commit: PyGitCommit.commit_tree, inherited by PyGitRef.
CliCommitTree(tree_hash, p, m, timestamp) ==
    /\ Cardinality(DOMAIN objects) < MaxCliCommits
    /\ CommitTree(tree_hash, p, m, timestamp)

\* update-ref: PyGitRef.update_ref.
CliUpdateRef(ref_name, commit_hash) ==
    LET r == cli_update_ref(refs, ref_name, commit_hash)
    IN  /\ refs' = r.refs
        /\ ret' = [op |-> "update_ref", err |-> r.err]
        /\ lastOp' = [op |-> "update_ref", ref_name |-> ref_name, commit_hash |-> commit_hash]
        /\ UNCHANGED <<objects, sha, issued, work, restored>>

\* create-branch: PyGitRef.branch with a branch name.
CliBranch(branch_name, start_point) ==
    LET r == cli_branch(refs, branch_name, start_point)
    IN  /\ refs' = r.refs
        /\ ret' = [op |-> "branch", err |-> r.err]
        /\ lastOp' = [op |-> "branch", branch_name |-> branch_name, start_point |-> start_point]
        /\ UNCHANGED <<objects, sha, issued, work, restored>>

\* switch-branch: PyGitRef.checkout.
CliCheckout(branch_name) ==
    LET r == cli_checkout(refs, branch_name)
    IN  /\ refs' = r.refs
        /\ ret' = [op |-> "checkout", err |-> r.err]
        /\ lastOp' = [op |-> "checkout", branch_name |-> branch_name]
        /\ UNCHANGED <<objects, sha, issued, work, restored>>

\* show-history: PyGitRef.log.
CliLog(start_point) ==
    LET r == cli_log(refs, objects, start_point)
    IN  /\ ret' = [op |-> "cli_log", visited |-> r.visited, err |-> r.err]
        /\ lastOp' = [op |-> "cli_log", start_point |-> start_point]
        /\ UNCHANGED <<objects, sha, issued, work, restored, refs>>

\* list-branches: PyGitRef.branch without a branch name.
CliBranchList ==
    LET r == cli_branch_list(refs)
    IN  /\ ret' = [op |-> "branch_list", current |-> r.current, listed |-> r.listed,
                   marked |-> r.marked]
        /\ lastOp' = [op |-> "branch_list"]
        /\ UNCHANGED <<objects, sha, issued, work, restored, refs>>

NextCli ==
    \/ CliInit
    \/ \E tree_hash \in TreeHashes, p \in {None} \cup DOMAIN objects, m \in Messages,
          timestamp \in Timestamps : CliCommitTree(tree_hash, p, m, timestamp)
    \/ \E ref_name \in RefNames, commit_hash \in HashArgs : CliUpdateRef(ref_name, commit_hash)
    \/ \E branch_name \in BranchNames, start_point \in StartPoints :
           CliBranch(branch_name, start_point)
    \/ \E branch_name \in BranchNames : CliCheckout(branch_name)
    \/ CliBranchList
    \/ \E start_point \in StartPoints \cup DOMAIN objects : CliLog(start_point)

SpecCli == InitCli /\ [][NextCli]_vars

(***************************************************************************)
(* Claims on the object store.                                             *)
(***************************************************************************)
\* The length field and the payload of the file stored at an address.
DeclaredSize(address) ==
    LET raw_data == Decompress(objects[address])
    IN  SubSeq(raw_data, Find(raw_data, SP, 1) + 1, Find(raw_data, NUL, 1) - 1)

Payload(address) ==
    LET raw_data == Decompress(objects[address])
    IN  SubSeq(raw_data, Find(raw_data, NUL, 1) + 1, Len(raw_data))

LengthMismatch(address) ==
    /\ address \in DOMAIN objects
    /\ ParseInt(DeclaredSize(address)) # Len(Payload(address))

\* C1: put is idempotent and write-once. A put of a (kind, content) that was
\* put before returns the address its first put returned and leaves every
\* object file as it is; and no operation of the program removes an object
\* or changes the bytes of one (only the outside change of Tamper does).
C1_PutIdempotentWriteOnce ==
    [][/\ lastOp'.op # "tamper" =>
              \A a \in DOMAIN objects :
                  a \in DOMAIN objects' /\ objects'[a] = objects[a]
       /\ (lastOp'.op = "put" /\ lastOp'.again) =>
              /\ ret'.hash = issued[<<lastOp'.kind, lastOp'.content>>]
              /\ objects' = objects]_vars

\* A (kind, content) is put again while the file at its address no longer
\* holds what the first put wrote.
C1_Witness ==
    /\ lastOp.op = "put"
    /\ lastOp.again
    /\ ret.hash \in DOMAIN objects
    /\ objects[ret.hash] # Compress(Frame(lastOp.kind, lastOp.content))

\* C2: corruption detection. A get of an address whose stored header declares
\* a length other than the payload's length fails and returns no payload; when
\* the declared length is a number, the failure is the size-mismatch error.
C2_CorruptionDetected ==
    (ret.op = "get" /\ LengthMismatch(lastOp.address)) =>
        /\ ret.result.err # "none"
        /\ ret.result.content = <<>>
        /\ ParseInt(DeclaredSize(lastOp.address)) # -1 =>
               ret.result.err = "ValueError: corrupted: size mismatch"

\* A get of an object whose length field reads less than its payload's length.
C2_Witness ==
    /\ ret.op = "get"
    /\ LengthMismatch(lastOp.address)
    /\ ParseInt(DeclaredSize(lastOp.address)) # -1
    /\ ParseInt(DeclaredSize(lastOp.address)) < Len(Payload(lastOp.address))
    /\ ret.result.err = "ValueError: corrupted: size mismatch"

(***************************************************************************)
(* Claims on trees.                                                        *)
(***************************************************************************)
Hidden(name) == name # <<>> /\ name[1] = DOT

\* Whether a node holds, recursively, a file on a path with no hidden name.
RECURSIVE HasVisibleFile(_)
HasVisibleFile(node) ==
    IF node.type = "file" THEN TRUE
    ELSE \E n \in DOMAIN node.children :
             ~Hidden(n) /\ HasVisibleFile(node.children[n])

\* The names of a directory that are not hidden and hold a visible file.
KeptNames(node) ==
    {n \in DOMAIN node.children : ~Hidden(n) /\ HasVisibleFile(node.children[n])}

\* A node without its hidden entries and its directories with no visible file.
RECURSIVE VisiblePart(_)
VisiblePart(node) ==
    IF node.type = "file" THEN node
    ELSE Dir([n \in KeptNames(node) |-> VisiblePart(node.children[n])])

\* The names a tree object's content lists: each record's header, from after
\* the first space to the NUL, the records 21 bytes apart after the NUL.
RECURSIVE ListedNames(_, _)
ListedNames(content, offset) ==
    LET null_pos == Find(content, NUL, offset)
        sp == Find(content, SP, offset)
    IN  IF offset > Len(content) \/ null_pos = 0 THEN {}
        ELSE {SubSeq(content, sp + 1, null_pos - 1)}
                 \cup ListedNames(content, null_pos + HASH_BYTES + 1)

IsTree(address) == SubSeq(Decompress(objects[address]), 1, Len(TREE) + 1) = TREE \o <<SP>>

ExpandOfBuild ==
    /\ lastOp.op = "expand"
    /\ lastOp.fresh
    /\ Truthy(issued.build)
    /\ lastOp.address = issued.build

\* C3 as stated: build then expand into a fresh target reproduces the
\* directory tree exactly: the same paths, bytes and executable bits.
C3_RoundTripAsStated == ExpandOfBuild => (ret.err = "none" /\ restored = work)

\* C3, amended: when build returns an address, expand of that address into a
\* fresh target succeeds and reproduces exactly the files on paths with no
\* hidden (dot-prefixed) name, with their bytes and executable bit, and
\* exactly the directories that hold such a file.
C3_RoundTripVisible == ExpandOfBuild => (ret.err = "none" /\ restored = VisiblePart(work))

\* The tree of a directory with an executable file, a file whose name holds a
\* space and a subdirectory is expanded, and something of it is not reproduced.
C3_Witness ==
    /\ ExpandOfBuild
    /\ restored # work
    /\ NameAB \in DOMAIN restored.children
    /\ NameD \in DOMAIN restored.children
    /\ \E n \in DOMAIN restored.children :
           restored.children[n].type = "file" /\ restored.children[n].exec

\* C5: a directory with no visible file (only empty subdirectories and hidden
\* entries, recursively) builds to absent and no tree object is stored for it;
\* a built tree lists exactly the visible children that hold a visible file,
\* so a subdirectory whose build is absent has no entry; and no stored tree
\* object has zero entries.
C5_EmptyElision ==
    /\ \A a \in DOMAIN objects : IsTree(a) => Payload(a) # <<>>
    /\ (ret.op = "build" /\ ~HasVisibleFile(work)) =>
           (ret.hash = None /\ objects = Empty)
    /\ (ret.op = "build" /\ Truthy(ret.hash)) =>
           ListedNames(Payload(ret.hash), 1) = KeptNames(work)

\* A directory whose only subdirectory holds nothing but a hidden file and an
\* empty directory was built, and its tree lists a file and not the subdirectory.
C5_Witness ==
    /\ ret.op = "build"
    /\ Truthy(ret.hash)
    /\ NameD \in DOMAIN work.children
    /\ DOMAIN work.children[NameD].children = {NameH, NameE}
    /\ NameD \notin ListedNames(Payload(ret.hash), 1)

\* A directory holding only a hidden file and a subdirectory with an empty
\* directory was built to absent.
C5_WitnessAbsent ==
    /\ ret.op = "build"
    /\ lastOp.dirname = <<>>
    /\ ret.hash = None
    /\ DOMAIN work.children = {NameH, NameD}
    /\ DOMAIN work.children[NameD].children = {NameE}

\* C4: order-independence. A tree built from a set of entries presented in
\* any order has the serialized content and the address of the tree first
\* built from that set, whatever order it was presented in then.
C4_OrderIndependent ==
    lastOp.op = "tree" =>
        /\ ret.content = issued[Range(lastOp.entries)].content
        /\ ret.hash = issued[Range(lastOp.entries)].hash

\* Three entries are presented in an order other than the first one's, and
\* not sorted by name.
C4_Witness ==
    /\ lastOp.op = "tree"
    /\ Len(lastOp.entries) = 3
    /\ issued[Range(lastOp.entries)].entries # lastOp.entries
    /\ LexLess(lastOp.entries[2][4], lastOp.entries[1][4])

(***************************************************************************)
(* Claims on commits.                                                      *)
(***************************************************************************)
\* Whether the parents named when the commits were created lead from h to a
\* root commit, and the commits on the way.
RECURSIVE LinkedToRoot(_)
LinkedToRoot(h) ==
    /\ h \in DOMAIN issued
    /\ Truthy(issued[h].parent) => LinkedToRoot(issued[h].parent)

RECURSIVE ParentChain(_)
ParentChain(h) ==
    <<h>> \o (IF Truthy(issued[h].parent) THEN ParentChain(issued[h].parent) ELSE <<>>)

\* C6: history linearity. A history walk started at a commit whose parent
\* links lead to a root commit visits exactly the commits of that chain, child
\* before parent, and stops without an error after the root.
C6_HistoryLinear ==
    (lastOp.op = "log" /\ LinkedToRoot(lastOp.commit_hash)) =>
        /\ ret.visited = ParentChain(lastOp.commit_hash)
        /\ ret.err = "none"

\* A walk from C3 of a chain C1 <- C2 <- C3 has visited three commits.
C6_Witness ==
    /\ lastOp.op = "log"
    /\ LinkedToRoot(lastOp.commit_hash)
    /\ Len(ParentChain(lastOp.commit_hash)) = 3
    /\ Len(ret.visited) = 3
    /\ issued[ret.visited[3]].parent = None

(***************************************************************************)
(* Claims on refs.                                                         *)
(***************************************************************************)
\* The record a lookup of the name finds among the records written: the
\* name itself, else the name under refs/heads; None when there is neither
\* (for HEAD: when there is no HEAD).
RecordOf(name) ==
    IF name = HEAD /\ HEAD \notin DOMAIN issued THEN None
    ELSE IF name \in DOMAIN issued THEN name
    ELSE IF Join(REFS_HEADS, name) \in DOMAIN issued THEN Join(REFS_HEADS, name)
    ELSE None

\* Whether the named record, or a record further along its symbolic chain, is missing.
RECURSIVE ChainMissing(_, _)
ChainMissing(name, seen) ==
    /\ name \notin seen
    /\ \/ RecordOf(name) = None
       \/ /\ issued[RecordOf(name)].symbolic
          /\ ChainMissing(issued[RecordOf(name)].target, seen \cup {name})

\* C7 as stated: show-history called with the address of a commit in the
\* object store walks the history from that commit, as it does for a ref
\* that resolves to the commit.
C7_LogAcceptsAddress ==
    (lastOp.op = "cli_log" /\ lastOp.start_point \in DOMAIN objects) =>
        /\ ret.visited # <<>>
        /\ ret.visited = log_walk(objects, lastOp.start_point, <<>>).visited

\* C8: ref indirection. For every ref A last written as symbolic with target
\* B, resolve(A) returns exactly what resolve(B) returns; and when the record
\* of B was last written as direct with address C, resolve(A) returns C.
C8_RefIndirection ==
    \A A \in DOMAIN issued :
        issued[A].symbolic =>
            LET B == issued[A].target
                viaA == resolve_ref(refs, A)
            IN  /\ viaA = resolve_ref(refs, B)
                /\ (ret.op = "resolve" /\ lastOp.ref_name = A) =>
                       (ret.err = viaA.err /\ ret.value = viaA.value)
                /\ (RecordOf(B) # None /\ ~issued[RecordOf(B)].symbolic) =>
                       viaA = [err |-> "none", value |-> issued[RecordOf(B)].target]

\* HEAD, symbolic with the short target 'dev', was resolved to the address
\* that refs/heads/dev holds.
C8_Witness ==
    /\ ret.op = "resolve"
    /\ lastOp.ref_name = HEAD
    /\ HEAD \in DOMAIN issued
    /\ issued[HEAD] = [target |-> DEV, symbolic |-> TRUE]
    /\ HEADS_DEV \in DOMAIN issued
    /\ issued[HEADS_DEV] = [target |-> Hash2, symbolic |-> FALSE]
    /\ ret.value = Hash2

\* C9 as stated: resolve of a name whose record, or a record along its
\* symbolic chain, is missing returns none and raises nothing.
C9_MissingResolvesNone ==
    (ret.op = "resolve" /\ ChainMissing(lastOp.ref_name, {})) =>
        (ret.err = "none" /\ ret.value = None)

\* The files of the git directory: the ref records.
RefRecords == {n \in DOMAIN refs : ~StartsWith(n, <<DOT, DOT, SLASH>>)}

\* Whether a value is not 40 hex digits.
Malformed(h) ==
    ~ /\ Len(h) = 40
      /\ \A i \in 1..Len(h) : h[i] \in (48..57) \cup (97..102) \cup (65..70)

\* C10 as stated: validation. An update-ref whose value is not 40 hex digits is
\* rejected with an error and leaves every ref file as it was; and no direct
\* ref record ever holds a value that is not 40 hex digits.
C10_Validation ==
    /\ [](\A n \in RefRecords :
              ~StartsWith(refs[n], REF_MARK) => ~Malformed(Strip(refs[n])))
    /\ [][(lastOp'.op = "update_ref" /\ Malformed(lastOp'.commit_hash)) =>
              (refs' = refs /\ ret'.err = "Error: not a valid SHA-1 hash")]_vars

\* The branch HEAD is attached to: the text after 'ref: refs/heads/' when
\* HEAD is such a symbolic record, None when HEAD is direct or missing.
AttachedBranch ==
    LET mark == REF_MARK \o REFS_HEADS \o <<SLASH>>
    IN  IF HEAD \in DOMAIN refs /\ StartsWith(Strip(refs[HEAD]), mark)
        THEN SubSeq(Strip(refs[HEAD]), Len(mark) + 1, Len(Strip(refs[HEAD])))
        ELSE None

\* C11 as stated: whenever HEAD is symbolic with target refs/heads/<b>,
\* current_branch() returns exactly <b>, and when the branch exists it is the
\* one entry list-branches marks as current; when HEAD is direct or missing
\* current_branch() returns none.
C11_CurrentBranchAsStated ==
    lastOp.op = "branch_list" =>
        /\ ret.current = AttachedBranch
        /\ (AttachedBranch # None /\ Join(REFS_HEADS, AttachedBranch) \in DOMAIN refs) =>
               ret.marked = {AttachedBranch}

(***************************************************************************)
(* Claims on failures.                                                     *)
(***************************************************************************)
\* C12 as stated: an expand that fails reports the error and leaves the
\* object store and the target directory as they were before the call (a
\* fresh target stays absent).
C12_NoPartialEffect ==
    [][(lastOp'.op = "expand" /\ ret'.err # "none") =>
           /\ objects' = objects
           /\ restored' = IF lastOp'.fresh THEN Absent ELSE restored]_vars

\* Whether the tree content from the offset on is a sequence of whole
\* records: a header with a space, a NUL, 20 address bytes.
RECURSIVE WellFormedFrom(_, _)
WellFormedFrom(content, offset) ==
    \/ offset > Len(content)
    \/ LET null_pos == Find(content, NUL, offset)
       IN  /\ null_pos # 0
           /\ Find(SubSeq(content, offset, null_pos - 1), SP, 1) # 0
           /\ null_pos + HASH_BYTES <= Len(content)
           /\ WellFormedFrom(content, null_pos + HASH_BYTES + 1)

\* The content of the tree stored at the address.
TreeContent(address) == retrieve_object(objects, address).content

\* Whether the address holds a tree whose content has a malformed record.
MalformedTreeAt(address) ==
    /\ address \in DOMAIN objects
    /\ retrieve_object(objects, address).err = "none"
    /\ retrieve_object(objects, address).type = TREE
    /\ ~WellFormedFrom(TreeContent(address), 1)

\* C13 as stated: expanding or listing a tree whose content has a malformed
\* record reports an error; it never ends silently with the entries read so far.
C13_StrictParsing ==
    (lastOp.op \in {"expand", "ls_tree"} /\ MalformedTreeAt(lastOp.address)) =>
        ret.err # "none"

(***************************************************************************)
(* Claims on the commit codec.                                             *)
(***************************************************************************)
\* The parent field of the commit stored at the address: None when absent.
ParentField(h) == DictGet(parse_commit(objects, h).data, KEY_PARENT)

\* C14 as stated: every commit's parent field, when present, is the address
\* of a commit in the store, and a history walk from a stored commit never
\* reaches a missing or non-commit object.
C14_ParentsExist ==
    /\ \A h \in DOMAIN objects :
           (parse_commit(objects, h).err = "none" /\ ParentField(h) # None) =>
               /\ ParentField(h) \in DOMAIN objects
               /\ parse_commit(objects, ParentField(h)).err = "none"
    /\ (lastOp.op = "log" /\ lastOp.commit_hash \in DOMAIN objects) => ret.err = "none"

\* C15 as stated: parse(create(t, p, m)) returns tree = t, parent = p (no
\* parent key when p is none) and the message m with only its trailing
\* whitespace trimmed.
C15_CommitRoundTrip ==
    (lastOp.op = "parse" /\ lastOp.commit_hash \in DOMAIN issued) =>
        LET made == issued[lastOp.commit_hash]
        IN  /\ ret.err = "none"
            /\ DictGet(ret.data, KEY_TREE) = made.tree
            /\ Truthy(made.parent) => DictGet(ret.data, KEY_PARENT) = made.parent
            /\ made.parent = None => KEY_PARENT \notin DOMAIN ret.data
            /\ DictGet(ret.data, KEY_MESSAGE) = RStrip(made.message)

(***************************************************************************)
(* Claims on symbolic chains.                                              *)
(***************************************************************************)
\* C16 as stated: in every ref store produced by update calls, resolve of a
\* name ends by returning an address or none; the recursion through
\* symbolic refs never runs away.
C16_ResolveTerminates ==
    ret.op = "resolve" => ret.err # "RecursionError"

\* Whether the record is symbolic, and the name it points at.
IsSymbolic(n) == StartsWith(Strip(refs[n]), REF_MARK)
TargetOf(n) == SubSeq(Strip(refs[n]), Len(REF_MARK) + 1, Len(Strip(refs[n])))

\* The number of indirections resolve follows from the name, counted up to a cap.
RECURSIVE Hops(_, _)
Hops(name, n) ==
    LET found == IF name \in DOMAIN refs THEN name
                 ELSE IF Join(REFS_HEADS, name) \in DOMAIN refs
                 THEN Join(REFS_HEADS, name) ELSE None
    IN  IF n > 2 \/ found = None \/ ~IsSymbolic(found) THEN n
        ELSE Hops(TargetOf(found), n + 1)

\* C17 as stated: in every state reached by initialize-repository, update-ref,
\* create-branch and switch-branch, only HEAD is symbolic, its target is
\* refs/heads/<branch>, every record under refs/heads is a 40-hex address,
\* and resolve of any name follows at most one indirection and meets no cycle.
C17_HeadOnlySymbolic ==
    /\ \A n \in RefRecords :
           IF IsSymbolic(n)
           THEN /\ n = HEAD
                /\ StartsWith(TargetOf(n), REFS_HEADS \o <<SLASH>>)
                /\ Len(TargetOf(n)) > Len(REFS_HEADS) + 1
           ELSE StartsWith(n, REFS_HEADS \o <<SLASH>>) => ~Malformed(Strip(refs[n]))
    /\ \A name \in RefNames \cup BranchNames \cup StartPoints :
           /\ Hops(name, 0) <= 1
           /\ resolve_ref(refs, name).err # "RecursionError"

====
